---- MODULE Spec2Model ----
(***************************************************************************)
(* CCS08 signature-based zero-knowledge range proof                        *)
(* (go-ethereum/zkrangeproof/ccs08.go): Setup, Commit, Hash, Decompose,    *)
(* Prove and Verify.                                                       *)
(*                                                                         *)
(* The three pairing groups G1, G2, GT have the same prime order.  A group *)
(* element is represented by its discrete logarithm to the group's fixed   *)
(* generator, so that g^a * g^b is a + b, (g^a)^k is a * k and             *)
(* e(g1^a, g2^b) = e(g1, g2)^(a * b), all modulo the order.                *)
(***************************************************************************)
EXTENDS Integers, Sequences, FiniteSets, TLC

VARIABLES
    G1, G2, E,   \* the package-level generators and their pairing
    params,      \* the params returned by Setup, NoParams before
    err,         \* the error value the last call returned, "none" before
    proof_out,   \* the proof Prove returned or the adversary forged
    wit,         \* Prove's inputs and locals: x, r, decx, v
    origin,      \* who built proof_out: "prove" or "forge"
    tampered,    \* the field, index and value replaced in Verify's argument
    phase,       \* "start", "setup", "proved", "verified", "panic"
    res,         \* Verify's boolean result, FALSE before
    vst,         \* a Verify call in progress: its pc, i, D, r1 and r2
    dec          \* a Decompose call: the caller's x, u, l and the result

shared == <<G1, G2, E, params>>

vars == <<G1, G2, E, params, err, proof_out, wit, origin, tampered, phase,
          res, vst, dec>>

\* bn256.Order, scaled down to a small prime.
Order == 3

\* h of Setup (the discrete logarithm of H), reduced modulo the order.
hConst == 2

\* Bounds of the explored inputs.
MaxU == 2
MaxL == 2
MaxX == 4
MaxR == 1
MaxDecU == 4
MaxDecL == 3
MaxDecX == 30

Scalars == 0..(Order - 1)

\* A nil *bn256.G2 or *big.Int.
Nil == -1

----------------------------------------------------------------------------
\* Big-integer helpers (bn.go).

Abs(n) == IF n < 0 THEN -n ELSE n

\* big.Int.Mod: Euclidean modulus, 0 <= result < |modulo|.
Mod(base, modulo) == base % Abs(modulo)

\* big.Int.Div: Euclidean division, base = q * modulo + Mod(base, modulo).
Div(base, modulo) ==
    IF modulo > 0 THEN (base - Mod(base, modulo)) \div modulo
    ELSE -((base - Mod(base, modulo)) \div Abs(modulo))

Sub(a, b) == a - b

Multiply(a, b) == a * b

RECURSIVE Exp(_, _)
Exp(b, e) == IF e <= 0 THEN 1 ELSE b * Exp(b, e - 1)

\* ModInverse for a prime modulus; Nil when base has no inverse.
ModInverse(base, modulo) ==
    IF \E k \in 1..(modulo - 1) : (base * k) % modulo = 1
    THEN CHOOSE k \in 1..(modulo - 1) : (base * k) % modulo = 1
    ELSE Nil

----------------------------------------------------------------------------
\* Pairing groups (crypto/bn256).

ScalarBaseMult(k) == Mod(k, Order)

ScalarMult(P, k) == Mod(P * k, Order)

Add(P, Q) == Mod(P + Q, Order)

Invert(a) == Mod(-a, Order)

Pair(P1, P2) == Mod(P1 * P2, Order)

\* Canonical fixed-width encoding of a group element.
Marshal(e) == <<e \div 2, e % 2>>

----------------------------------------------------------------------------
\* strconv.FormatInt(i, 10): the decimal digits of i, most significant first.

RECURSIVE FormatNat(_)
FormatNat(n) ==
    IF n < 10 THEN <<n>> ELSE Append(FormatNat(n \div 10), n % 10)

\* The sign is the leading element, 45 for '-'.
FormatInt(i) == IF i < 0 THEN <<45>> \o FormatNat(-i) ELSE FormatNat(i)

\* The text of a group element: its coordinates between brackets.
String(e) == <<40>> \o FormatNat(e) \o <<41>>

----------------------------------------------------------------------------
\* Boneh-Boyen key pair and signature (bb.go).

\* privk is a random scalar; pubk = g1^privk.
keygen(privk) == [privk |-> privk, pubk |-> ScalarBaseMult(privk)]

\* sign(m, privk) = g2^(1 / (m + privk)).
sign(m, privk) ==
    LET inv == ModInverse(Mod(m + privk, Order), Order)
    IN  IF inv = Nil THEN Nil ELSE ScalarBaseMult(inv)

----------------------------------------------------------------------------
\* Commit(x, r, p) = g2^x . H^r
Commit(x, r, p) == Add(ScalarBaseMult(x), ScalarMult(p.H, r))

\* digest.Write(b): the digest's state h after the bytes b[i..] are absorbed.
RECURSIVE DigestWrite(_, _, _)
DigestWrite(h, b, i) ==
    IF i > Len(b) THEN h
    ELSE DigestWrite((h * 31 + b[i] + 7) % 256, b, i + 1)

\* The loop of Hash: a[i].String() written for every i from i on.
RECURSIVE DigestAll(_, _, _)
DigestAll(h, a, i) ==
    IF i > Len(a) THEN h
    ELSE DigestAll(DigestWrite(h, String(a[i]), 1), a, i + 1)

\* Hash(a, D): every a[i], then D, written to the digest; the digest read
\* as an integer.
Hash(a, D) == DigestWrite(DigestAll(17, a, 1), String(D), 1)

\* Decompose's loop from round i on: x is the running quotient.
RECURSIVE DecomposeFrom(_, _, _, _)
DecomposeFrom(x, u, l, i) ==
    IF i >= l THEN <<>>
    ELSE <<Mod(x, u)>> \o DecomposeFrom(Div(x, u), u, l, i + 1)

\* The digits most significant first.
RECURSIVE DecomposeMostFirst(_, _, _)
DecomposeMostFirst(x, u, l) ==
    IF l <= 0 THEN <<>>
    ELSE Append(DecomposeMostFirst(Div(x, u), u, l - 1), Mod(x, u))

\* Decompose(x, u, l): l digits, least significant first (result[i] of the
\* code is Decompose(x, u, l)[i + 1]).
Decompose(x, u, l) == DecomposeFrom(x, u, l, 0)

\* Decompose panics when make is given a negative length, or on a zero
\* modulus in the first round.
DecomposePanics(x, u, l) == l < 0 \/ (l > 0 /\ u = 0)

----------------------------------------------------------------------------
\* Setup(u, l) with the private key privk drawn by keygen.

SigKeys(u) == {FormatInt(i) : i \in 0..(u - 1)}

Setup(u, l, privk) ==
    [signatures |-> [k \in SigKeys(u) |->
                        sign(CHOOSE i \in 0..(u - 1) : FormatInt(i) = k, privk)],
     H  |-> ScalarBaseMult(hConst),
     kp |-> keygen(privk),
     u  |-> u,
     l  |-> l]

\* sign has no inverse to exponentiate with: ScalarBaseMult is given nil.
SetupPanics(u, l, privk) == \E i \in 0..(u - 1) : sign(i, privk) = Nil

----------------------------------------------------------------------------
\* Prove(x, r, p) with the scalars rnd = [m, v, s, t] drawn from rand.Reader.

Indices(l) == 1..l

\* A of the loop: the signature of digit decx[i], Nil when the map has none.
SigOf(p, d) ==
    IF FormatInt(d) \in DOMAIN p.signatures THEN p.signatures[FormatInt(d)]
    ELSE Nil

ProveV(p, decx, rnd, i) == ScalarMult(SigOf(p, decx[i]), rnd.v[i])

\* a[i] = e(g1, V[i])^(-s[i]) . E^t[i]
ProveA(p, decx, rnd, i) ==
    Add(Invert(ScalarMult(Pair(G1, ProveV(p, decx, rnd, i)), rnd.s[i])),
        ScalarMult(E, rnd.t[i]))

\* D after the rounds i..l of the loop (i is the code's i + 1).
RECURSIVE ProveD(_, _, _, _)
ProveD(p, rnd, D, i) ==
    IF i > p.l THEN D
    ELSE LET ui    == Exp(p.u, i - 1)
             muisi == Mod(Multiply(rnd.s[i], ui), Order)
         IN  ProveD(p, rnd, Add(D, ScalarBaseMult(muisi)), i + 1)

ProveC(a, D) == Mod(Hash(a, D), Order)

\* zr = m + r.c
ProveZrSum(m, r, c) == Mod(m + Multiply(r, c), Order)

ProveZr(m, r, c) == Mod(Sub(m, Multiply(r, c)), Order)

ProveZsig(s, d, c) == Mod(Sub(s, Multiply(d, c)), Order)

ProveZv(t, v, c) == Mod(Sub(t, Multiply(v, c)), Order)

Prove(x, r, p, rnd) ==
    LET decx == Decompose(x, p.u, p.l)
        I    == Indices(p.l)
        V    == [i \in I |-> ProveV(p, decx, rnd, i)]
        a    == [i \in I |-> ProveA(p, decx, rnd, i)]
        D    == Add(0, ProveD(p, rnd, ScalarMult(p.H, rnd.m), 1))
        C    == Commit(x, r, p)
        c    == ProveC(a, D)
    IN  [V    |-> V,
         D    |-> D,
         C    |-> C,
         a    |-> a,
         s    |-> rnd.s,
         t    |-> rnd.t,
         zsig |-> [i \in I |-> ProveZsig(rnd.s[i], decx[i], c)],
         zv   |-> [i \in I |-> ProveZv(rnd.t[i], rnd.v[i], c)],
         c    |-> c,
         m    |-> rnd.m,
         zr   |-> ProveZr(rnd.m, r, c)]

\* Prove panics in Decompose, or on the nil signature of a digit the map
\* does not hold.
ProvePanics(x, p) ==
    IF DecomposePanics(x, p.u, p.l) THEN TRUE
    ELSE \E i \in Indices(p.l) : SigOf(p, Decompose(x, p.u, p.l)[i]) = Nil

----------------------------------------------------------------------------
\* Verify(proof_out, p, pubk)

\* D = C^c, the H^zr factor left out.
VerifyD0WithoutZr(pr, p) == ScalarMult(pr.C, pr.c)

\* D = C^c . H^zr, before the first loop.
VerifyD0(pr, p) == Add(ScalarMult(pr.C, pr.c), ScalarMult(p.H, pr.zr))

\* Round i of the first loop (i is the code's i + 1).
VerifyDStep(pr, p, D, i) ==
    LET ui       == Exp(p.u, i - 1)
        muizsigi == Mod(Multiply(pr.zsig[i], ui), Order)
    IN  Add(D, ScalarBaseMult(muizsigi))

\* D after the rounds i..l of the first loop.
RECURSIVE VerifyD(_, _, _, _)
VerifyD(pr, p, D, i) ==
    IF i > p.l THEN D ELSE VerifyD(pr, p, VerifyDStep(pr, p, D, i), i + 1)

\* r1 = bytes.Equal(D.Marshal(), proof_out.D.Marshal())
VerifyCompare(pr, D) == Marshal(D) = Marshal(pr.D)

VerifyR1(pr, p) == VerifyCompare(pr, VerifyD(pr, p, VerifyD0(pr, p), 1))

\* p1 of round i: e(pubk, V[i])^c . e(g1, V[i])^(-zsig[i]) . E^zv[i]
VerifyP1(pr, pubk, i) ==
    LET p1 == ScalarMult(Pair(pubk, pr.V[i]), pr.c)
        p2 == Invert(ScalarMult(Pair(G1, pr.V[i]), pr.zsig[i]))
    IN  Add(Add(p1, p2), ScalarMult(E, pr.zv[i]))

\* r2 = bytes.Equal(pBytes, aBytes), the earlier rounds forgotten.
VerifyR2StepOverwrite(pr, pubk, r2, i) ==
    Marshal(VerifyP1(pr, pubk, i)) = Marshal(pr.a[i])

\* Round i of the second loop: r2 = r2 && bytes.Equal(pBytes, aBytes)
VerifyR2Step(pr, pubk, r2, i) ==
    r2 /\ Marshal(VerifyP1(pr, pubk, i)) = Marshal(pr.a[i])

\* r2 after the rounds i..l of the second loop.
RECURSIVE VerifyR2(_, _, _, _, _)
VerifyR2(pr, p, pubk, r2, i) ==
    IF i > p.l THEN r2
    ELSE VerifyR2(pr, p, pubk, VerifyR2Step(pr, pubk, r2, i), i + 1)

\* return r2, nil
VerifyResultSecondOnly(r1, r2) == r2

\* return r1 && r2, nil
VerifyResult(r1, r2) == r1 /\ r2

Verify(pr, p, pubk) ==
    VerifyResult(VerifyR1(pr, p), VerifyR2(pr, p, pubk, TRUE, 1))

----------------------------------------------------------------------------
\* What a call leaves of the objects it shares with its caller and with
\* concurrent calls: <<G1, G2, E, params>>, and the proof behind Verify's
\* pointer.  Every receiver the code writes to is a fresh object (new(...),
\* bn256.Pair's result, make), never one of these.

CommitShared(sh) == sh

ProveShared(sh) == sh

\* E.ScalarMult(E, k) with E itself as the receiver.
VerifySharedInPlace(sh) == <<sh[1], sh[2], ScalarMult(sh[3], 2), sh[4]>>

VerifyShared(sh) == sh

VerifyProof(pr) == pr

\* The caller's x after Decompose: the loop rebinds the local x to the fresh
\* quotient and leaves the big.Int behind the argument as it was.
DecomposeArg(x, u, l) == x

----------------------------------------------------------------------------
\* The adversary's inputs to Verify.

\* pr with field f (at index i, for the per-digit fields) replaced by val.
Replace(pr, f, i, val) ==
    CASE f = "zr"   -> [pr EXCEPT !.zr = val]
      [] f = "D"    -> [pr EXCEPT !.D = val]
      [] f = "C"    -> [pr EXCEPT !.C = val]
      [] f = "zsig" -> [pr EXCEPT !.zsig[i] = val]
      [] f = "zv"   -> [pr EXCEPT !.zv[i] = val]
      [] f = "V"    -> [pr EXCEPT !.V[i] = val]
      [] f = "a"    -> [pr EXCEPT !.a[i] = val]

FieldOf(pr, f, i) ==
    CASE f = "zr"   -> pr.zr
      [] f = "D"    -> pr.D
      [] f = "C"    -> pr.C
      [] f = "zsig" -> pr.zsig[i]
      [] f = "zv"   -> pr.zv[i]
      [] f = "V"    -> pr.V[i]
      [] f = "a"    -> pr.a[i]

ScalarFields == {"zr", "zsig", "zv"}

DigitFields == {"zsig", "zv", "V", "a"}

\* A response scalar is any big.Int, a group element one of the group.
FieldValues(f) == IF f \in ScalarFields THEN 0..(2 * Order - 1) ELSE Scalars

\* A proof built backwards from a challenge c chosen first: D and every a[i]
\* are what Verify will recompute.
Simulate(p, c, zr, C, zsig, zv, V) ==
    LET pr0 == [V |-> V, D |-> 0, C |-> C, a |-> zv, s |-> zv, t |-> zv,
                zsig |-> zsig, zv |-> zv, c |-> c, m |-> 0, zr |-> zr]
    IN  [pr0 EXCEPT !.D = VerifyD(pr0, p, VerifyD0(pr0, p), 1),
                    !.a = [i \in Indices(p.l) |-> VerifyP1(pr0, p.kp.pubk, i)]]

----------------------------------------------------------------------------
\* The calls as actions.

NoParams == [u |-> 0, l |-> 0, none |-> TRUE]

NoProof == [none |-> TRUE]

NoWit == [none |-> TRUE]

NoTamper == [field |-> "none", i |-> 0, val |-> 0]

Idle == [pc |-> "idle", i |-> 0, D |-> 0, r1 |-> FALSE, r2 |-> FALSE]

NoDec == [pc |-> "none", x |-> 0, arg |-> 0, u |-> 0, l |-> 0, result |-> <<>>]

Start ==
    /\ G1 = ScalarBaseMult(1)
    /\ G2 = ScalarBaseMult(1)
    /\ E = Pair(ScalarBaseMult(1), ScalarBaseMult(1))
    /\ err = "none"
    /\ proof_out = NoProof
    /\ wit = NoWit
    /\ origin = "none"
    /\ tampered = NoTamper
    /\ res = FALSE
    /\ vst = Idle

SharedBecomes(sh) ==
    /\ G1' = sh[1]
    /\ G2' = sh[2]
    /\ E' = sh[3]
    /\ params' = sh[4]

Init ==
    /\ Start
    /\ params = NoParams
    /\ phase = "start"
    /\ dec = NoDec

\* Setup returns p and a nil error.
SetupReturns ==
    /\ phase = "start"
    /\ \E u \in (-1)..MaxU, l \in (-1)..MaxL, privk \in Scalars :
          /\ ~SetupPanics(u, l, privk)
          /\ params' = Setup(u, l, privk)
    /\ err' = "nil"
    /\ phase' = "setup"
    /\ UNCHANGED <<G1, G2, E, proof_out, wit, origin, tampered, res, vst, dec>>

SetupAborts ==
    /\ phase = "start"
    /\ \E u \in (-1)..MaxU, l \in (-1)..MaxL, privk \in Scalars :
          SetupPanics(u, l, privk)
    /\ phase' = "panic"
    /\ UNCHANGED <<shared, err, proof_out, wit, origin, tampered, res, vst, dec>>

RandomDraws(l) ==
    [m : Scalars, v : [Indices(l) -> Scalars], s : [Indices(l) -> Scalars],
     t : [Indices(l) -> Scalars]]

\* Prove returns proof_out and a nil error.
ProveReturns ==
    /\ phase = "setup"
    /\ \E x \in 0..MaxX, r \in 0..MaxR :
          /\ ~ProvePanics(x, params)
          /\ \E rnd \in RandomDraws(params.l) :
                /\ proof_out' = Prove(x, r, params, rnd)
                /\ wit' = [x |-> x, r |-> r, v |-> rnd.v,
                           decx |-> Decompose(x, params.u, params.l)]
    /\ SharedBecomes(ProveShared(CommitShared(shared)))
    /\ err' = "nil"
    /\ origin' = "prove"
    /\ phase' = "proved"
    /\ UNCHANGED <<tampered, res, vst, dec>>

ProveAborts ==
    /\ phase = "setup"
    /\ \E x \in 0..MaxX : ProvePanics(x, params)
    /\ phase' = "panic"
    /\ UNCHANGED <<shared, err, proof_out, wit, origin, tampered, res, vst, dec>>

\* Verify(&proof_out, &params, params.kp.pubk)
VerifyReturns ==
    /\ phase = "proved"
    /\ res' = Verify(proof_out, params, params.kp.pubk)
    /\ proof_out' = VerifyProof(proof_out)
    /\ SharedBecomes(VerifyShared(shared))
    /\ err' = "nil"
    /\ phase' = "verified"
    /\ UNCHANGED <<wit, origin, tampered, vst, dec>>

Next ==
    \/ SetupReturns
    \/ SetupAborts
    \/ ProveReturns
    \/ ProveAborts
    \/ VerifyReturns

Spec == Init /\ [][Next]_vars

----------------------------------------------------------------------------
\* Verify on what an adversary hands it, under the params of a Setup whose
\* range [0, u^l) is not empty.

InitAdv ==
    /\ Start
    /\ \E u \in 1..MaxU, l \in 0..MaxL, privk \in Scalars :
          /\ ~SetupPanics(u, l, privk)
          /\ params = Setup(u, l, privk)
    /\ phase = "setup"
    /\ dec = NoDec

\* Verify is given a copy of the accepted proof_out with one field replaced.
VerifyTampered ==
    /\ phase = "verified"
    /\ origin = "prove"
    /\ res
    /\ \E f \in ScalarFields \cup DigitFields \cup {"D", "C"} :
       \E i \in IF f \in DigitFields THEN Indices(params.l) ELSE {0} :
       \E val \in FieldValues(f) \ {FieldOf(proof_out, f, i)} :
          /\ tampered' = [field |-> f, i |-> i, val |-> val]
          /\ res' = Verify(Replace(proof_out, f, i, val), params,
                           params.kp.pubk)
    /\ SharedBecomes(VerifyShared(shared))
    /\ err' = "nil"
    /\ phase' = "reverified"
    /\ UNCHANGED <<proof_out, wit, origin, vst, dec>>

\* The adversary builds a proof without a witness.
Forge ==
    /\ phase = "setup"
    /\ \E c \in Scalars, zr \in Scalars, C \in Scalars :
       \E zsig \in [Indices(params.l) -> Scalars] :
       \E zv \in [Indices(params.l) -> Scalars] :
       \E V \in [Indices(params.l) -> Scalars] :
          proof_out' = Simulate(params, c, zr, C, zsig, zv, V)
    /\ origin' = "forge"
    /\ phase' = "proved"
    /\ UNCHANGED <<shared, err, wit, tampered, res, vst, dec>>

NextAdv == ProveReturns \/ VerifyReturns \/ VerifyTampered \/ Forge

SpecAdv == InitAdv /\ [][NextAdv]_vars

----------------------------------------------------------------------------
\* One Verify call statement by statement, while other goroutines call
\* Commit, Prove and Verify on the same params.

VerifyBegin ==
    /\ phase = "proved"
    /\ vst.pc = "idle"
    /\ vst' = [pc |-> "loop1", i |-> 1, D |-> VerifyD0(proof_out, params),
               r1 |-> FALSE, r2 |-> FALSE]
    /\ phase' = "verifying"
    /\ UNCHANGED <<shared, err, proof_out, wit, origin, tampered, res, dec>>

VerifyLoop1 ==
    /\ vst.pc = "loop1"
    /\ vst.i <= params.l
    /\ vst' = [vst EXCEPT !.D = VerifyDStep(proof_out, params, vst.D, vst.i),
                          !.i = vst.i + 1]
    /\ UNCHANGED <<shared, err, proof_out, wit, origin, tampered, phase, res, dec>>

VerifyLoop1End ==
    /\ vst.pc = "loop1"
    /\ vst.i > params.l
    /\ vst' = [vst EXCEPT !.pc = "loop2", !.i = 1, !.r2 = TRUE,
                          !.r1 = VerifyCompare(proof_out, vst.D)]
    /\ UNCHANGED <<shared, err, proof_out, wit, origin, tampered, phase, res, dec>>

VerifyLoop2 ==
    /\ vst.pc = "loop2"
    /\ vst.i <= params.l
    /\ vst' = [vst EXCEPT !.r2 = VerifyR2Step(proof_out, params.kp.pubk,
                                              vst.r2, vst.i),
                          !.i = vst.i + 1]
    /\ UNCHANGED <<shared, err, proof_out, wit, origin, tampered, phase, res, dec>>

VerifyEnd ==
    /\ vst.pc = "loop2"
    /\ vst.i > params.l
    /\ res' = VerifyResult(vst.r1, vst.r2)
    /\ proof_out' = VerifyProof(proof_out)
    /\ SharedBecomes(VerifyShared(shared))
    /\ err' = "nil"
    /\ vst' = Idle
    /\ phase' = "verified"
    /\ UNCHANGED <<wit, origin, tampered, dec>>

\* Another goroutine's Commit, Prove or Verify on the same params and
\* package variables; its arguments and results are its own.
OtherCall ==
    /\ phase \in {"proved", "verifying", "verified"}
    /\ \E call \in {"Commit", "Prove", "Verify"} :
          SharedBecomes(CASE call = "Commit" -> CommitShared(shared)
                          [] call = "Prove"  -> ProveShared(CommitShared(shared))
                          [] call = "Verify" -> VerifyShared(shared))
    /\ UNCHANGED <<err, proof_out, wit, origin, tampered, phase, res, vst, dec>>

NextConc ==
    \/ ProveReturns
    \/ VerifyBegin
    \/ VerifyLoop1
    \/ VerifyLoop1End
    \/ VerifyLoop2
    \/ VerifyEnd
    \/ OtherCall

SpecConc == InitAdv /\ [][NextConc]_vars

----------------------------------------------------------------------------
\* Decompose on its own.

InitDec ==
    /\ Start
    /\ params = NoParams
    /\ phase = "start"
    /\ \E x \in (-2)..MaxDecX, u \in (-2)..MaxDecU, l \in (-1)..MaxDecL :
          dec = [pc |-> "call", x |-> x, arg |-> x, u |-> u, l |-> l,
                 result |-> <<>>]

DecomposeReturns ==
    /\ dec.pc = "call"
    /\ ~DecomposePanics(dec.x, dec.u, dec.l)
    /\ dec' = [dec EXCEPT !.pc = "done",
                          !.result = Decompose(dec.x, dec.u, dec.l),
                          !.arg = DecomposeArg(dec.arg, dec.u, dec.l)]
    /\ UNCHANGED <<shared, err, proof_out, wit, origin, tampered, phase, res, vst>>

DecomposeAborts ==
    /\ dec.pc = "call"
    /\ DecomposePanics(dec.x, dec.u, dec.l)
    /\ dec' = [dec EXCEPT !.pc = "panic"]
    /\ UNCHANGED <<shared, err, proof_out, wit, origin, tampered, phase, res, vst>>

NextDec == DecomposeReturns \/ DecomposeAborts

SpecDec == InitDec /\ [][NextDec]_vars

----------------------------------------------------------------------------
\* Properties.

\* Prove has returned a proof and a nil error.
Returned == phase \in {"proved", "verified"} /\ origin = "prove"

\* The params are those of a Setup with U >= 1 and L >= 1.
ValidParams == params.u >= 1 /\ params.l >= 1

InRange(x, p) == p.l >= 0 /\ 0 <= x /\ x < Exp(p.u, p.l)

\* sum of d[j] * u^(j-1) over the indices j of d from i on
RECURSIVE Weighted(_, _, _)
Weighted(d, u, i) ==
    IF i > Len(d) THEN 0 ELSE d[i] * Exp(u, i - 1) + Weighted(d, u, i + 1)

\* C1 (completeness): for U >= 1, L >= 0 and a secret 0 <= x < U^L, whatever
\* blinding r and random scalars m, v, s, t Prove drew, Verify accepts the
\* proof Prove returned, under the params and public key of the same Setup.
Completeness ==
    (phase = "verified" /\ origin = "prove" /\ params.u >= 1
        /\ InRange(wit.x, params)) => res

CompletenessWitness ==
    /\ phase = "verified"
    /\ origin = "prove"
    /\ params.u = 2
    /\ params.l = 2
    /\ wit.x = 2
    /\ wit.r = 1
    /\ proof_out.c # 0
    /\ res

\* C2 (range rejection): Prove never returns a proof with a nil error for a
\* secret x outside [0, U^L), here under params with U >= 1 and L >= 1.
RangeRejection == (Returned /\ ValidParams) => InRange(wit.x, params)

\* C3 (no witness data): the proof Prove returned holds none of the scalars
\* m, s[i], t[i], and no digit of x is computable from its fields as
\* (s[i] - zsig[i]) / c.
NoWitnessData ==
    (Returned /\ ValidParams) =>
        /\ DOMAIN proof_out \cap {"m", "s", "t"} = {}
        /\ ~(/\ proof_out.c # 0
             /\ \A i \in Indices(params.l) :
                   Mod((proof_out.s[i] - proof_out.zsig[i])
                         * ModInverse(proof_out.c, Order), Order)
                     = Mod(wit.decx[i], Order))

\* C7 (invalid configuration aborts): Setup never returns params with a nil
\* error for U <= 0 or L <= 0, so no Prove or Verify runs on such params.
InvalidConfigurationAborts ==
    phase \in {"setup", "proved", "verified"} => (params.u > 0 /\ params.l > 0)

\* C10 (out-of-range values are not accepted): when Prove returns a proof
\* for U^L <= x < order, Verify rejects it whenever its challenge c is not
\* zero modulo the order.
OutOfRangeRejected ==
    (phase = "verified" /\ origin = "prove" /\ params.l >= 0
        /\ Exp(params.u, params.l) <= wit.x /\ wit.x < Order
        /\ proof_out.c # 0) => ~res

OutOfRangeRejectedWitness ==
    /\ phase = "verified"
    /\ origin = "prove"
    /\ params.u = 2
    /\ params.l = 1
    /\ wit.x = 2
    /\ wit.decx = <<0>>
    /\ proof_out.c # 0
    /\ ~res

\* The proof the last Verify call was given.
VerifyInput ==
    IF phase = "reverified"
    THEN Replace(proof_out, tampered.field, tampered.i, tampered.val)
    ELSE proof_out

\* C^c * H^zr * Prod g2^(zsig[i] * U^i) is the proof's D.
ConsistencyCheck(pr, p) ==
    (pr.C * pr.c + p.H * pr.zr + Weighted(pr.zsig, p.u, 1) - pr.D) % Order = 0

\* pairing(pubk, V[i])^c * pairing(g1, V[i])^(-zsig[i]) * pairing(g1, g2)^zv[i]
\* is the proof's a[i].
DigitCheck(pr, pubk, i) ==
    (pubk * pr.V[i] * pr.c - pr.V[i] * pr.zsig[i] + pr.zv[i] - pr.a[i])
        % Order = 0

\* C4 as claimed (tamper sensitivity): Verify rejects an accepted proof in
\* which one of zr, zsig[i], zv[i], V[i], a[i], D, C is replaced by a
\* different value; here for the response scalars zr, zsig[i], zv[i] of a
\* proof whose c is not zero, under params with U >= 1 and L >= 1.
TamperRejected ==
    (phase = "reverified" /\ ValidParams /\ proof_out.c # 0
        /\ tampered.field \in ScalarFields) => ~res

\* The replaced value is one Verify can tell from the original.
Detectable ==
    CASE tampered.field \in ScalarFields ->
            tampered.val % Order
              # FieldOf(proof_out, tampered.field, tampered.i) % Order
      [] tampered.field \in {"a", "D"} -> TRUE
      [] tampered.field = "C" -> proof_out.c % Order # 0
      [] tampered.field = "V" ->
            (params.kp.privk * proof_out.c - proof_out.zsig[tampered.i])
                % Order # 0

\* C4 as amended: Verify rejects an accepted proof in which zr, zsig[i] or
\* zv[i] is replaced by a value that differs modulo the order, a[i] or D by
\* another group element, C by another element while c is not zero modulo
\* the order, or V[i] by another element while privk * c and zsig[i] differ
\* modulo the order.
TamperRejectedWhenDetectable == (phase = "reverified" /\ Detectable) => ~res

TamperRejectedWitness ==
    /\ phase = "reverified"
    /\ params.l = 2
    /\ tampered.field = "zr"
    /\ tampered.val = (proof_out.zr + 1) % Order
    /\ ~res

\* C5 (Verify's result): Verify returns true exactly when the consistency
\* check and the check of every digit index in [0, L) pass, and it returns
\* a nil error either way.
VerifyIffBothChecks ==
    phase \in {"verified", "reverified"} =>
        /\ res = (/\ ConsistencyCheck(VerifyInput, params)
                  /\ \A i \in Indices(params.l) :
                        DigitCheck(VerifyInput, params.kp.pubk, i))
        /\ err = "nil"

\* Only the first digit's check fails, and the proof is rejected.
VerifyIffBothChecksWitness ==
    /\ phase = "reverified"
    /\ params.l = 2
    /\ ConsistencyCheck(VerifyInput, params)
    /\ ~DigitCheck(VerifyInput, params.kp.pubk, 1)
    /\ DigitCheck(VerifyInput, params.kp.pubk, 2)
    /\ ~res

\* C9 (Fiat-Shamir binding): Verify accepts a proof only if its c is
\* Hash(a, D) modulo the order, here under params with U >= 1 and L >= 1.
FiatShamirBinding ==
    (phase = "verified" /\ res /\ ValidParams) =>
        proof_out.c = Mod(Hash(proof_out.a, proof_out.D), Order)

DecomposeRoundTrip ==
    (dec.pc = "done" /\ dec.u >= 2 /\ dec.l >= 0 /\ 0 <= dec.x
        /\ dec.x < Exp(dec.u, dec.l)) =>
        /\ Len(dec.result) = dec.l
        /\ \A i \in 1..Len(dec.result) : dec.result[i] \in 0..(dec.u - 1)
        /\ Weighted(dec.result, dec.u, 1) = dec.x
        /\ dec.arg = dec.x

DecomposeRoundTripWitness ==
    /\ dec.pc = "done"
    /\ dec.u = 3
    /\ dec.l = 3
    /\ dec.x = 23
    /\ dec.result = <<2, 1, 2>>
    /\ dec.arg = 23

====
